---- MODULE Spec2Model ----
(***************************************************************************)
(* Model of the candidate import script and of the three HTTP handlers of  *)
(* the recruiting assistant.  One behaviour is one execution of one entry  *)
(* point: the import run, or one request served by match-with-pinecone,    *)
(* query-candidates or create-embedding.  The external services (the       *)
(* embedding/completion API and the vector index) are the environment:     *)
(* every call to them either fails or returns a value drawn from a small   *)
(* set.                                                                    *)
(***************************************************************************)
EXTENDS Integers, Sequences, FiniteSets, TLC

\* ------------------------------------------------------------------ bounds
\* Largest candidates file the import is run on.
MaxCandidates == 51
\* Most per-candidate errors (bad record or failed embedding) in one run.
MaxCandidateErrors == 1

\* Longest vector list upsertToPinecone is called with on its own.
MaxUpsert == 201

\* Longest short result list of the vector query.
MaxMatches == 2
\* Longest short selection the language model answers with.
MaxSelection == 2

\* ------------------------------------------------------- program constants
batchSize == 50
upsertBatchSize == 100
\* "Select the 5 best candidates", "Top 5 Diverse Team Members"
TeamSize == 5

\* File lengths the import is run on: empty, one record, one record short of
\* a batch, exactly one batch, and the largest file.
FileLengths == {0, 1, batchSize - 1, batchSize, MaxCandidates}

\* data/candidates.json as the import sees it: absent, not JSON, or n records.
CandidateFiles ==
  {[status |-> st, length |-> 0] : st \in {"missing", "unparsable"}}
    \cup {[status |-> "ok", length |-> n] : n \in FileLengths}

\* Lengths of the lists upsertToPinecone is called with on its own: empty, one
\* vector, around one chunk, exactly two chunks, and the longest list.
UpsertLengths ==
  {0, 1, upsertBatchSize - 1, upsertBatchSize, upsertBatchSize + 1,
   2 * upsertBatchSize, MaxUpsert}

Min(a, b) == IF a < b THEN a ELSE b

\* vectors.slice(from, to) on a 0-based half-open range, as a 1-based sequence.
Slice(s, from, to) == [x \in 1..(Min(to, Len(s)) - Min(from, Len(s))) |-> s[Min(from, Len(s)) + x]]

NoRequest == [method |-> "", body |-> "", field |-> ""]

VARIABLES
  running,          \* entry point being executed: "none", "import", ...
  pc,               \* position of the execution inside its function
  totalCandidates,  \* candidates.length of the file read by the import
  i,                \* start of the current batch (0-based)
  batchEnd,         \* end of the current batch (exclusive, 0-based)
  cursor,           \* number of records of the file the for-of loops have passed
  vectors,          \* vectors of the current batch: file positions (1-based)
  processedCount,   \* the import counter
  batches,          \* upsertToPinecone: the chunks of the current call
  k,                \* upsertToPinecone: index of the next chunk (0-based)
  errors,           \* per-candidate errors seen so far in this run
  fatal,            \* history: what threw into the import's outer catch, "" if nothing
  attempts,         \* history: attempts[c] = times record c entered the try block
  embedCalls,       \* history: embedCalls[c] = embedding API calls made for record c
  batchLog,         \* history: the <<i, batchEnd>> of every batch started
  upsertCalls,      \* history: the vector lists handed to upsertToPinecone
  chunkSends,       \* history: the chunks sent to index.upsert, with outcome
  outcomeOf,        \* history: how the processing of record c ended, "" if not yet
  importedMsg,      \* N of 'Successfully imported N candidates', -1 if not logged
  req,              \* the HTTP request being served: [method, body, field]
  calls,            \* history: the external calls of this request, in order
  callResults,      \* history: how each call ended: "ok", "failed", "malformed"
  allCandidates,    \* the local file as read by the match route: [ok, records]
  responses,        \* the responses the handler produced: [status, error]
  rejected,         \* TRUE when the handler let an exception escape
  matches,          \* what queryPinecone returned: [id, score] records
  matchedCandidates,\* the matches joined with the local file: [candidate, score]
  responseText,     \* the completion's text, as tokens
  selectedTeam,     \* the parsed selection: the candidateEmail of every entry
  payload           \* the body of the status-200 response

importVars == <<totalCandidates, i, batchEnd, cursor, vectors, processedCount,
                batches, k, errors, attempts, embedCalls, outcomeOf,
                batchLog, upsertCalls, chunkSends, importedMsg, fatal>>

httpVars == <<req, calls, callResults, allCandidates, responses, rejected, matches, matchedCandidates,
              responseText, selectedTeam, payload>>

vars == <<running, pc, importVars, httpVars>>

Records == 1..MaxCandidates

Init ==
  /\ running = "none"
  /\ pc = "idle"
  /\ totalCandidates = 0
  /\ i = 0
  /\ batchEnd = 0
  /\ cursor = 0
  /\ vectors = <<>>
  /\ processedCount = 0
  /\ batches = <<>>
  /\ k = 0
  /\ errors = 0
  /\ fatal = ""
  /\ attempts = [c \in Records |-> 0]
  /\ embedCalls = [c \in Records |-> 0]
  /\ outcomeOf = [c \in Records |-> ""]
  /\ batchLog = <<>>
  /\ upsertCalls = <<>>
  /\ chunkSends = <<>>
  /\ importedMsg = -1
  /\ req = NoRequest
  /\ calls = <<>>
  /\ callResults = <<>>
  /\ allCandidates = [ok |-> FALSE, records |-> <<>>]
  /\ responses = <<>>
  /\ rejected = FALSE
  /\ matches = <<>>
  /\ matchedCandidates = <<>>
  /\ responseText = <<>>
  /\ selectedTeam = <<>>
  /\ payload = <<>>

\* ------------------------------------------------------------ the import

\* The head of the batch loop, entered with the batch start `start`: either a
\* new batch begins or the loop is over and the success message is logged.
LoopHead(start, count) ==
  IF start < totalCandidates
    THEN /\ i' = start
         /\ batchEnd' = Min(start + batchSize, totalCandidates)
         /\ batchLog' = Append(batchLog, <<start, Min(start + batchSize, totalCandidates)>>)
         /\ cursor' = start
         /\ vectors' = <<>>
         /\ pc' = "candidate"
         /\ importedMsg' = importedMsg
    ELSE /\ i' = start
         /\ pc' = "done"
         /\ importedMsg' = count
         /\ UNCHANGED <<batchEnd, batchLog, cursor, vectors>>

\* importCandidatesToPinecone up to the call of createPineconeIndex.
ImportBegin(file) ==
  /\ UNCHANGED httpVars
  /\ running = "none"
  /\ running' = "import"
  /\ IF file.status \in {"missing", "unparsable"}
       THEN /\ pc' = "failed"
            /\ fatal' = "file"
            /\ UNCHANGED totalCandidates
       ELSE /\ pc' = "createIndex"
            /\ totalCandidates' = file.length
            /\ UNCHANGED fatal
  /\ UNCHANGED <<i, batchEnd, cursor, vectors, processedCount, batches, k, errors,
                 attempts, embedCalls, outcomeOf, batchLog, upsertCalls, chunkSends, importedMsg>>

\* createPineconeIndex returns or throws; on return the batch loop starts.
CreateIndex(outcome) ==
  /\ UNCHANGED httpVars
  /\ running = "import" /\ pc = "createIndex"
  /\ IF outcome \in {"listFailed", "createFailed"}
       THEN /\ pc' = "failed"
            /\ fatal' = "index"
            /\ UNCHANGED <<i, batchEnd, cursor, vectors, batchLog, importedMsg>>
       ELSE /\ LoopHead(0, 0)
            /\ UNCHANGED fatal
  /\ processedCount' = 0
  /\ UNCHANGED <<running, totalCandidates, batches, k, errors, attempts, embedCalls, outcomeOf,
                 upsertCalls, chunkSends>>

\* The loop without the catch block: a candidate error reaches the outer catch.
CandidatePc_NoCatch(c, outcome) ==
  IF outcome # "ok" THEN "failed" ELSE IF c = batchEnd THEN "upsert" ELSE "candidate"

\* Where the for-of loop goes after record c: the catch block of lines 115-117
\* swallows the error, so the loop goes on to the next record or ends.
CandidatePc(c, outcome) == IF c = batchEnd THEN "upsert" ELSE "candidate"

\* The counter incremented in the catch block too.
CountAfter_Always(count, outcome) == count + 1

\* processedCount++ is reached only when the embedding was obtained.
CountAfter(count, outcome) == IF outcome = "ok" THEN count + 1 ELSE count

\* vectors.unshift(...) in place of vectors.push(...).
VectorsAfter_Unshift(vs, c, outcome) == IF outcome = "ok" THEN <<c>> \o vs ELSE vs

\* vectors.push(...) is reached only when the embedding was obtained.
VectorsAfter(vs, c, outcome) == IF outcome = "ok" THEN Append(vs, c) ELSE vs

\* getEmbedding with one retry after a failure.
EmbedCallsFor_Retry(outcome) ==
  IF outcome = "descError" THEN 0 ELSE IF outcome = "embedError" THEN 2 ELSE 1

\* Embedding API calls made for one record: none when the description throws.
EmbedCallsFor(outcome) == IF outcome = "descError" THEN 0 ELSE 1

\* One iteration of the for-of loop over the batch.
ProcessCandidate(outcome) ==
  /\ UNCHANGED httpVars
  /\ running = "import" /\ pc = "candidate"
  /\ outcome # "ok" => errors < MaxCandidateErrors
  /\ LET c == cursor + 1 IN
       /\ attempts' = [attempts EXCEPT ![c] = @ + 1]
       /\ embedCalls' = [embedCalls EXCEPT ![c] = @ + EmbedCallsFor(outcome)]
       /\ outcomeOf' = [outcomeOf EXCEPT ![c] = outcome]
       /\ vectors' = VectorsAfter(vectors, c, outcome)
       /\ processedCount' = CountAfter(processedCount, outcome)
       /\ errors' = IF outcome = "ok" THEN errors ELSE errors + 1
       /\ cursor' = c
       /\ pc' = CandidatePc(c, outcome)
  /\ UNCHANGED <<running, totalCandidates, i, batchEnd, batches, k, batchLog,
                 upsertCalls, chunkSends, importedMsg, fatal>>

\* The chunks cut with slice(i, i + batchSize - 1): one vector short.
Chunks_OneShort(vs) ==
  [b \in 1..((Len(vs) + upsertBatchSize - 1) \div upsertBatchSize) |->
     Slice(vs, (b - 1) * upsertBatchSize, b * upsertBatchSize - 1)]

\* upsertToPinecone: the chunks of at most upsertBatchSize vectors.
Chunks(vs) ==
  [b \in 1..((Len(vs) + upsertBatchSize - 1) \div upsertBatchSize) |->
     Slice(vs, (b - 1) * upsertBatchSize, b * upsertBatchSize)]

\* The batch's vectors are handed to upsertToPinecone, or the call is skipped.
UpsertBatch ==
  /\ UNCHANGED httpVars
  /\ running = "import" /\ pc = "upsert"
  /\ IF Len(vectors) > 0
       THEN /\ upsertCalls' = Append(upsertCalls, [batch |-> Len(batchLog), vectors |-> vectors])
            /\ batches' = Chunks(vectors)
            /\ k' = 0
            /\ pc' = IF Len(Chunks(vectors)) = 0 THEN "batchEnd" ELSE "chunk"
       ELSE /\ pc' = "batchEnd"
            /\ UNCHANGED <<upsertCalls, batches, k>>
  /\ UNCHANGED <<running, totalCandidates, i, batchEnd, cursor, vectors, processedCount,
                 errors, attempts, embedCalls, outcomeOf, batchLog, chunkSends, importedMsg, fatal>>

\* upsertToPinecone called on its own with the vectors 1..n: lines 82-94.
\* The client is built on first use (lines 43-52); when that throws, the
\* function throws before it cuts any chunk.
UpsertBegin(n, client) ==
  /\ UNCHANGED httpVars
  /\ running = "none"
  /\ running' = "upsert"
  /\ LET vs == [x \in 1..n |-> x] IN
       /\ upsertCalls' = Append(upsertCalls, [batch |-> 0, vectors |-> vs])
       /\ batches' = IF client THEN Chunks(vs) ELSE <<>>
       /\ k' = 0
       /\ pc' = IF ~client THEN "threw"
                ELSE IF Len(Chunks(vs)) = 0 THEN "returned" ELSE "chunk"
  /\ UNCHANGED <<totalCandidates, i, batchEnd, cursor, vectors, processedCount, errors,
                 attempts, embedCalls, outcomeOf, batchLog, chunkSends, importedMsg, fatal>>

\* Where upsertToPinecone returns to: the import's line 123, or its caller.
UpsertReturned == IF running = "import" THEN "batchEnd" ELSE "returned"

\* The import with a try/catch of its own around the upsert of a batch: the
\* error is logged and the batch loop goes on.
UpsertThrew_PerBatch == IF running = "import" THEN "batchEnd" ELSE "threw"

\* Where an error of index.upsert lands: upsertToPinecone has no catch, so in
\* the import's outer catch, or in the caller.
UpsertThrew == IF running = "import" THEN "failed" ELSE "threw"

\* One index.upsert call of upsertToPinecone.
UpsertChunk(ok) ==
  /\ UNCHANGED httpVars
  /\ running \in {"import", "upsert"} /\ pc = "chunk"
  /\ chunkSends' = Append(chunkSends, [chunk |-> batches[k + 1], ok |-> ok])
  /\ IF ok
       THEN /\ k' = k + 1
            /\ pc' = IF k + 1 < Len(batches) THEN "chunk" ELSE UpsertReturned
            /\ UNCHANGED fatal
       ELSE /\ k' = k
            /\ pc' = UpsertThrew
            /\ fatal' = IF running = "import" THEN "upsert" ELSE fatal
  /\ UNCHANGED <<running, totalCandidates, i, batchEnd, cursor, vectors, processedCount,
                 batches, errors, attempts, embedCalls, outcomeOf, batchLog, upsertCalls, importedMsg>>

\* The end of a batch iteration: the pause, then the next batch or the end.
NextBatch ==
  /\ UNCHANGED httpVars
  /\ running = "import" /\ pc = "batchEnd"
  /\ LoopHead(i + batchSize, processedCount)
  /\ UNCHANGED <<running, totalCandidates, processedCount, batches, k, errors,
                 attempts, embedCalls, outcomeOf, upsertCalls, chunkSends, fatal>>


\* ------------------------------------------------- the HTTP handlers: data

\* The value of body.requirements (body.text for create-embedding): absent,
\* the empty string, the number 0, another number, or a non-empty string.
FieldValues == {"missing", "empty", "zero", "number", "text"}

\* !v
Falsy(v) == v \in {"missing", "empty", "zero"}

\* typeof v === 'string'
IsString(v) == v \in {"empty", "text"}

\* The check without its typeof test.
InvalidField_FalsyOnly(v) == Falsy(v)

\* !requirements || typeof requirements !== 'string'
InvalidField(v) == Falsy(v) \/ ~IsString(v)

\* Requests to the match-with-pinecone route: the body is not JSON (or
\* absent), is the JSON value null, or is an object.
MatchRequests ==
  {[method |-> "POST", body |-> b, field |-> "missing"] : b \in {"unparsable", "null"}}
    \cup {[method |-> "POST", body |-> "object", field |-> f] : f \in FieldValues}

\* Requests to the two page handlers, whose body arrives parsed.
PageRequests ==
  {[method |-> m, body |-> "null", field |-> "missing"] : m \in {"GET", "POST"}}
    \cup {[method |-> m, body |-> "object", field |-> f] :
            m \in {"GET", "POST"}, f \in FieldValues}

Candidate(email, name) == [email |-> email, name |-> name]

\* data/candidates.json as the match route reads it.  Two records share an
\* email.
FullFile ==
  <<Candidate("ann", "Ann"), Candidate("bob", "Bob"), Candidate("ann", "Ann II"),
    Candidate("cy", "Cy"), Candidate("dee", "Dee"), Candidate("eve", "Eve")>>

LocalFiles ==
  {[ok |-> FALSE, records |-> <<>>], [ok |-> TRUE, records |-> <<>>],
   [ok |-> TRUE, records |-> FullFile]}

\* Ids the vector index answers with in the short result lists, and emails
\* the language model names in its short answers; "ghost" is in the index
\* but in no local record.
ShortIds == {"ann", "bob", "ghost"}

\* All sequences over S of length at most n.
RECURSIVE SeqsUpTo(_, _)
SeqsUpTo(S, n) ==
  IF n = 0 THEN {<<>>}
  ELSE LET shorter == SeqsUpTo(S, n - 1) IN
         shorter \cup {Append(q, x) : q \in {t \in shorter : Len(t) = n - 1}, x \in S}

Injective(q) == \A x, y \in 1..Len(q) : q[x] = q[y] => x = y

\* The k-th match of a result list has score 100 - k: best first.
Scored(ids) == [x \in 1..Len(ids) |-> [id |-> ids[x], score |-> 100 - x]]

\* The result lists of the vector query: every list of at most MaxMatches
\* distinct short ids, and one list naming every id.
MatchLists ==
  {Scored(q) : q \in {t \in SeqsUpTo(ShortIds, MaxMatches) : Injective(t)}}
    \cup {Scored(<<"eve", "ghost", "dee", "cy", "bob", "ann">>)}

NoCandidate == Candidate("", "")
Null == [candidate |-> NoCandidate, score |-> 0 - 1]

HasEmail(records, email) == \E x \in 1..Len(records) : records[x].email = email

\* The last record of that email in place of the first.
Find_Last(records, email) ==
  records[CHOOSE x \in 1..Len(records) :
            /\ records[x].email = email
            /\ \A y \in (x + 1)..Len(records) : records[y].email # email]

\* allCandidates.find(c => c.email === email): the first such record.
Find(records, email) ==
  records[CHOOSE x \in 1..Len(records) :
            /\ records[x].email = email
            /\ \A y \in 1..(x - 1) : records[y].email # email]

\* matches.map(...).filter(item => item !== null)
JoinMatches(ms, records) ==
  SelectSeq([x \in 1..Len(ms) |->
               IF HasEmail(records, ms[x].id)
                 THEN [candidate |-> Find(records, ms[x].id), score |-> ms[x].score]
                 ELSE Null],
            LAMBDA item : item # Null)

\* -------------------------------------------- the completion text, as tokens
\* "[" "]" "," are themselves, "w" is a word of prose, and any other token e
\* is an object {candidateEmail: e, reasons, uniqueStrengths, complementsTeam}.
Punctuation == {"[", "]", ",", "w"}

RECURSIVE Commas(_)
Commas(sel) ==
  IF Len(sel) = 0 THEN <<>>
  ELSE IF Len(sel) = 1 THEN <<sel[1]>>
  ELSE <<sel[1], ",">> \o Commas(Tail(sel))

ArrayText(sel) == <<"[">> \o Commas(sel) \o <<"]">>

\* The answer the prompt asks for: the first TeamSize listed candidates.
Compliant(matched) ==
  [x \in 1..Min(TeamSize, Len(matched)) |-> matched[x].candidate.email]

\* The short answers of the language model: any selection of at most
\* MaxSelection emails.
ShortSelections == SeqsUpTo(ShortIds, MaxSelection)

Selections(matched) == ShortSelections \cup {Compliant(matched)}

\* The texts the completion API answers with: no content, prose only, the
\* array alone, the array inside prose, the array after bracketed prose, and
\* the array cut off before its closing bracket.
CompletionTexts(matched) ==
  {<<>>, <<"w">>}
    \cup UNION {{ArrayText(sel),
                 <<"w">> \o ArrayText(sel) \o <<"w">>,
                 <<"[", "w", "]">> \o ArrayText(sel),
                 <<"[">> \o Commas(sel)} : sel \in Selections(matched)}

\* responseText.match(/\[[\s\S]*\]/): from the first "[" to the last "]".
JsonMatch(text) ==
  LET opens == {x \in 1..Len(text) : text[x] = "["}
      closes == {x \in 1..Len(text) : text[x] = "]"}
  IN IF opens = {} \/ closes = {} THEN [found |-> FALSE, text |-> <<>>]
     ELSE LET first == CHOOSE x \in opens : \A y \in opens : x <= y
              last == CHOOSE x \in closes : \A y \in closes : y <= x
          IN IF first < last
               THEN [found |-> TRUE, text |-> SubSeq(text, first, last)]
               ELSE [found |-> FALSE, text |-> <<>>]

\* JSON.parse of a text that starts with "[" and ends with "]".
JsonParse(text) ==
  LET inner == SubSeq(text, 2, Len(text) - 1) IN
    IF inner = <<>> THEN [ok |-> TRUE, value |-> <<>>]
    ELSE IF /\ Len(inner) % 2 = 1
            /\ \A x \in 1..Len(inner) :
                 IF x % 2 = 1 THEN inner[x] \notin Punctuation ELSE inner[x] = ","
      THEN [ok |-> TRUE, value |-> [x \in 1..((Len(inner) + 1) \div 2) |-> inner[2 * x - 1]]]
      ELSE [ok |-> FALSE, value |-> <<>>]

\* Lines 157-167: the selection, or the parse failure.
ParseTeam(text) ==
  IF JsonMatch(text).found THEN JsonParse(JsonMatch(text).text)
  ELSE [ok |-> FALSE, value |-> <<>>]

IsMatched(matched, email) ==
  \E x \in 1..Len(matched) : matched[x].candidate.email = email

\* matchedCandidates.find(m => m.candidate.email === email)
FindMatched(matched, email) ==
  matched[CHOOSE x \in 1..Len(matched) :
            /\ matched[x].candidate.email = email
            /\ \A y \in 1..(x - 1) : matched[y].candidate.email # email]

\* selectedTeam.map(...), when no selection throws.
TeamWithProfiles(team, matched) ==
  [x \in 1..Len(team) |->
     [candidate |-> FindMatched(matched, team[x]).candidate, selection |-> team[x]]]

\* What the vector query answers: a failure or a result list.
QueryResults ==
  {[ok |-> FALSE, matches |-> <<>>]} \cup {[ok |-> TRUE, matches |-> ms] : ms \in MatchLists}

\* What the completion call answers: a failure, a response without choices,
\* or a text.
CompletionResults(matched) ==
  {[ok |-> FALSE, choices |-> FALSE, text |-> <<>>], [ok |-> TRUE, choices |-> FALSE, text |-> <<>>]}
    \cup {[ok |-> TRUE, choices |-> TRUE, text |-> t] : t \in CompletionTexts(matched)}

\* The mapping that skips a selection it cannot find instead of throwing.
MapTeam_Partial(team, matched) ==
  [ok |-> TRUE,
   value |-> TeamWithProfiles(SelectSeq(team, LAMBDA e : IsMatched(matched, e)), matched)]

\* selectedTeam.map(...): the profiles, or the throw of lines 172-174 when a
\* selected email is the email of no matched candidate.
MapTeam(team, matched) ==
  IF \E x \in 1..Len(team) : ~IsMatched(matched, team[x])
    THEN [ok |-> FALSE, value |-> <<>>]
    ELSE [ok |-> TRUE, value |-> TeamWithProfiles(team, matched)]

\* The route without its 404 return.
NoMatches_Never(matched) == FALSE

\* matchedCandidates.length === 0
NoMatches(matched) == Len(matched) = 0

\* ---------------------------------------------- the HTTP handlers: actions

Respond(status, error) ==
  /\ responses' = Append(responses, [status |-> status, error |-> error])
  /\ pc' = "responded"
  /\ rejected' = rejected

\* A catch block that rethrows instead of answering.
MatchCatch_Rethrow ==
  /\ responses' = responses
  /\ pc' = "responded"
  /\ rejected' = TRUE

\* The catch block of the match-with-pinecone route.
MatchCatch == Respond(500, "Failed to match candidates")

\* POST of match-with-pinecone up to the embedding call.
MatchBegin(r) ==
  /\ running = "none"
  /\ running' = "match"
  /\ req' = r
  /\ IF r.body \in {"unparsable", "null"}
       THEN MatchCatch /\ calls' = calls
       ELSE IF InvalidField(r.field)
         THEN Respond(400, "Invalid requirements data") /\ calls' = calls
         ELSE /\ calls' = Append(calls, "embedding")
              /\ pc' = "embedding"
              /\ UNCHANGED <<responses, rejected>>
  /\ UNCHANGED <<importVars, callResults, allCandidates, matches, matchedCandidates,
                 responseText, selectedTeam, payload>>

\* The embedding call returns or throws; on return the vector query is made.
MatchEmbedded(ok) ==
  /\ running = "match" /\ pc = "embedding"
  /\ callResults' = Append(callResults, IF ok THEN "ok" ELSE "failed")
  /\ IF ok
       THEN /\ calls' = Append(calls, "query")
            /\ pc' = "query"
            /\ UNCHANGED <<responses, rejected>>
       ELSE MatchCatch /\ calls' = calls
  /\ UNCHANGED <<running, importVars, req, allCandidates, matches, matchedCandidates,
                 responseText, selectedTeam, payload>>

\* The vector query returns or throws; on return the local file is read and
\* joined, and the completion call is made.
MatchQueried(result, file) ==
  /\ running = "match" /\ pc = "query"
  /\ callResults' = Append(callResults, IF result.ok THEN "ok" ELSE "failed")
  /\ IF ~result.ok
       THEN MatchCatch /\ UNCHANGED <<calls, matches, allCandidates, matchedCandidates>>
       ELSE /\ matches' = result.matches
            /\ allCandidates' = file
            /\ IF ~file.ok
                 THEN MatchCatch /\ UNCHANGED <<calls, matchedCandidates>>
                 ELSE /\ matchedCandidates' = JoinMatches(result.matches, file.records)
                      /\ IF NoMatches(JoinMatches(result.matches, file.records))
                           THEN Respond(404, "No matching candidates found") /\ calls' = calls
                           ELSE /\ calls' = Append(calls, "completion")
                                /\ pc' = "completion"
                                /\ UNCHANGED <<responses, rejected>>
  /\ UNCHANGED <<running, importVars, req, responseText, selectedTeam, payload>>

\* What the route does with the completion call's outcome: lines 153-187.
MatchReturn(result) ==
  /\ callResults' = Append(callResults, IF ~result.ok THEN "failed"
                                        ELSE IF ~result.choices THEN "malformed" ELSE "ok")
  /\ IF ~result.ok \/ ~result.choices
       THEN MatchCatch /\ UNCHANGED <<responseText, selectedTeam, payload>>
       ELSE /\ responseText' = result.text
            /\ IF ~ParseTeam(result.text).ok
                 THEN /\ Respond(500, "Failed to parse AI response")
                      /\ UNCHANGED <<selectedTeam, payload>>
                 ELSE LET team == ParseTeam(result.text).value
                          mapped == MapTeam(team, matchedCandidates)
                      IN /\ selectedTeam' = team
                         /\ IF mapped.ok
                              THEN payload' = mapped.value /\ Respond(200, "")
                              ELSE payload' = payload /\ MatchCatch

\* The completion call returns or throws; on return the text is parsed and
\* the selection mapped to profiles.
MatchCompleted ==
  /\ running = "match" /\ pc = "completion"
  /\ \E result \in CompletionResults(matchedCandidates) : MatchReturn(result)
  /\ UNCHANGED <<running, importVars, req, calls, allCandidates, matches, matchedCandidates>>

\* The catch block of the query-candidates handler.
QueryCatch == Respond(500, "Failed to query candidates")

\* The query-candidates handler up to the embedding call.
QueryBegin(r) ==
  /\ running = "none"
  /\ running' = "query"
  /\ req' = r
  /\ IF r.method # "POST"
       THEN Respond(405, "Method not allowed") /\ calls' = calls
       ELSE IF r.body = "null"
         THEN QueryCatch /\ calls' = calls
         ELSE IF InvalidField(r.field)
           THEN Respond(400, "Invalid requirements data") /\ calls' = calls
           ELSE /\ calls' = Append(calls, "embedding")
                /\ pc' = "embedding"
                /\ UNCHANGED <<responses, rejected>>
  /\ UNCHANGED <<importVars, callResults, allCandidates, matches, matchedCandidates,
                 responseText, selectedTeam, payload>>

\* The embedding call returns or throws; on return the vector query is made.
QueryEmbedded(ok) ==
  /\ running = "query" /\ pc = "embedding"
  /\ callResults' = Append(callResults, IF ok THEN "ok" ELSE "failed")
  /\ IF ok
       THEN /\ calls' = Append(calls, "query")
            /\ pc' = "query"
            /\ UNCHANGED <<responses, rejected>>
       ELSE QueryCatch /\ calls' = calls
  /\ UNCHANGED <<running, importVars, req, allCandidates, matches, matchedCandidates,
                 responseText, selectedTeam, payload>>

\* The vector query returns or throws; on return the matches are the answer.
QueryQueried(result) ==
  /\ running = "query" /\ pc = "query"
  /\ callResults' = Append(callResults, IF result.ok THEN "ok" ELSE "failed")
  /\ IF result.ok
       THEN /\ matches' = result.matches
            /\ payload' = result.matches
            /\ Respond(200, "")
       ELSE QueryCatch /\ UNCHANGED <<matches, payload>>
  /\ UNCHANGED <<running, importVars, req, calls, allCandidates, matchedCandidates,
                 responseText, selectedTeam>>

\* The catch block of the create-embedding handler.
EmbedCatch == Respond(500, "Failed to create embedding")

\* The create-embedding handler up to the embedding call.
EmbedBegin(r) ==
  /\ running = "none"
  /\ running' = "embed"
  /\ req' = r
  /\ IF r.method # "POST"
       THEN Respond(405, "Method not allowed") /\ calls' = calls
       ELSE IF r.body = "null"
         THEN EmbedCatch /\ calls' = calls
         ELSE IF InvalidField(r.field)
           THEN Respond(400, "Invalid text data") /\ calls' = calls
           ELSE /\ calls' = Append(calls, "embedding")
                /\ pc' = "embedding"
                /\ UNCHANGED <<responses, rejected>>
  /\ UNCHANGED <<importVars, callResults, allCandidates, matches, matchedCandidates,
                 responseText, selectedTeam, payload>>

\* The embedding call returns or throws; on return the embedding is the answer.
EmbedEmbedded(ok) ==
  /\ running = "embed" /\ pc = "embedding"
  /\ callResults' = Append(callResults, IF ok THEN "ok" ELSE "failed")
  /\ IF ok
       THEN /\ payload' = <<"embedding">>
            /\ Respond(200, "")
       ELSE EmbedCatch /\ payload' = payload
  /\ UNCHANGED <<running, importVars, req, calls, allCandidates, matches, matchedCandidates,
                 responseText, selectedTeam>>

\* ---------------------------------------------------------------- claims

Range(q) == {q[x] : x \in 1..Len(q)}

ErrorRecords == {c \in Records : outcomeOf[c] \in {"descError", "embedError"}}

OkRecords == {c \in Records : outcomeOf[c] = "ok"}

\* The records handed to upsertToPinecone so far.
HandedRecords == UNION {Range(upsertCalls[u].vectors) : u \in 1..Len(upsertCalls)}

RECURSIVE HandedCount(_)
HandedCount(n) == IF n = 0 THEN 0 ELSE Len(upsertCalls[n].vectors) + HandedCount(n - 1)

\* The number of vectors the index accepted so far.
RECURSIVE UpsertedCount(_)
UpsertedCount(n) ==
  IF n = 0 THEN 0
  ELSE (IF chunkSends[n].ok THEN Len(chunkSends[n].chunk) ELSE 0) + UpsertedCount(n - 1)

Http == running \in {"match", "query", "embed"}

Status(st) == Len(responses) = 1 /\ responses[1].status = st

Answered(st, error) == responses = <<[status |-> st, error |-> error]>>

GenericError ==
  IF running = "match" THEN "Failed to match candidates"
  ELSE IF running = "query" THEN "Failed to query candidates"
  ELSE "Failed to create embedding"

C2_FailureAnswers500 ==
  Http =>
    /\ ~rejected
    /\ Len(responses) <= 1
    /\ "failed" \in Range(callResults) => (pc = "responded" /\ Answered(500, GenericError))

\* The completion call of a match request failed after two successful calls.
C2_Witness ==
  running = "match" /\ callResults = <<"ok", "ok", "failed">> /\ Status(500)

\* C3: no retry: the embedding API is called at most once per candidate
\* record, no vector is sent to the index twice, and within one HTTP request
\* each external service is called at most once.
C3_NoRetry ==
  /\ \A c \in Records : embedCalls[c] <= 1
  /\ \A x, y \in 1..Len(chunkSends) :
       x # y => Range(chunkSends[x].chunk) \cap Range(chunkSends[y].chunk) = {}
  /\ \A x, y \in 1..Len(calls) : calls[x] = calls[y] => x = y

\* An embedding failed, and later the upsert of a batch failed.
C3_Witness ==
  /\ \E c \in Records : outcomeOf[c] = "embedError" /\ embedCalls[c] = 1
  /\ chunkSends # <<>> /\ ~chunkSends[Len(chunkSends)].ok

EndOfBatch == pc \in {"batchEnd", "done"} \/ (pc = "candidate" /\ cursor = i /\ i > 0)

\* C4: at the end of every batch iteration processedCount is the number of
\* vectors handed to upsertToPinecone so far, which is the number of
\* candidates whose embedding succeeded; the N of 'Successfully imported N'
\* is the number of vectors the index accepted and is at most the number of
\* candidates of the file.
C4_CounterExact ==
  running = "import" =>
    /\ EndOfBatch => (/\ processedCount = HandedCount(Len(upsertCalls))
                      /\ processedCount = Cardinality(OkRecords))
    /\ importedMsg # -1 => (/\ importedMsg = UpsertedCount(Len(chunkSends))
                            /\ importedMsg <= totalCandidates)

\* A run of two upserted batches with a failed candidate logged its count.
C4_Witness ==
  /\ pc = "done" /\ importedMsg > 0 /\ importedMsg < totalCandidates
  /\ Len(upsertCalls) >= 2

\* The matches that have a local record, as positions of the match list.
Kept == {x \in 1..Len(matches) :
           \E y \in 1..Len(allCandidates.records) : allCandidates.records[y].email = matches[x].id}

\* The j-th position of a set of positions.
Nth(K, j) == CHOOSE x \in K : Cardinality({y \in K : y < x}) = j - 1

\* The position of the first local record with the email.
FirstRecord(email) ==
  CHOOSE y \in 1..Len(allCandidates.records) :
    /\ allCandidates.records[y].email = email
    /\ \A z \in 1..(y - 1) : allCandidates.records[z].email # email

\* C5: the matched list is the matches whose id is the email of a local
\* record, in the order of the vector search, each with its match's score and
\* the first local record of that email; it is never longer than the matches.
C5_JoinedInOrder ==
  (running = "match" /\ allCandidates.ok) =>
    /\ Len(matchedCandidates) = Cardinality(Kept)
    /\ Len(matchedCandidates) <= Len(matches)
    /\ \A j \in 1..Len(matchedCandidates) :
         /\ matchedCandidates[j].score = matches[Nth(Kept, j)].score
         /\ matchedCandidates[j].candidate =
              allCandidates.records[FirstRecord(matches[Nth(Kept, j)].id)]

\* A match without local record was dropped and a match with two local
\* records was joined.
C5_Witness ==
  /\ running = "match" /\ allCandidates.ok
  /\ Len(matchedCandidates) >= 2 /\ Len(matchedCandidates) < Len(matches)
  /\ \E j \in 1..Len(matchedCandidates) : matchedCandidates[j].candidate.email = "ann"

\* C6: every status-200 response of the match-with-pinecone endpoint is a
\* team of exactly five distinct candidates.
C6_TeamOfFive ==
  (running = "match" /\ Status(200)) =>
    /\ Len(payload) = TeamSize
    /\ \A x, y \in 1..Len(payload) : payload[x].candidate = payload[y].candidate => x = y

\* C7: every profile of a status-200 response of the match route is a
\* candidate of the matched list (so named by the vector search and present in
\* the local file), the response has one entry per entry of the selection in
\* the same order, and a selection naming an email of no matched candidate
\* ends the request with status 500 and no team.
C7_TeamFromMatched ==
  running = "match" =>
    /\ Status(200) =>
         /\ Len(payload) = Len(selectedTeam)
         /\ \A x \in 1..Len(payload) :
              /\ payload[x].selection = selectedTeam[x]
              /\ payload[x].candidate.email = selectedTeam[x]
              /\ \E j \in 1..Len(matchedCandidates) :
                   matchedCandidates[j].candidate = payload[x].candidate
              /\ \E m \in 1..Len(matches) : matches[m].id = payload[x].candidate.email
              /\ payload[x].candidate \in Range(allCandidates.records)
    /\ (\E x \in 1..Len(selectedTeam) :
          \A j \in 1..Len(matchedCandidates) :
            matchedCandidates[j].candidate.email # selectedTeam[x]) =>
         (Answered(500, "Failed to match candidates") /\ payload = <<>>)

\* A team of two different candidates was returned.
C7_Witness ==
  /\ running = "match" /\ Status(200) /\ Len(payload) = 2
  /\ payload[1].candidate # payload[2].candidate

\* The field is missing, empty or not a string.
BadField == req.field \in {"missing", "empty", "zero", "number"}

PageHandler == running \in {"query", "embed"}

InvalidMessage == IF running = "embed" THEN "Invalid text data" ELSE "Invalid requirements data"

\* C8 as stated: a request whose requirements (or text) is missing, empty or
\* not a string is answered 400, a non-POST request to a page handler is
\* answered 405, both before any external call.
C8_RejectedWith400 ==
  Http =>
    /\ (PageHandler /\ req.method # "POST") =>
         (Answered(405, "Method not allowed") /\ calls = <<>>)
    /\ (req.method = "POST" /\ BadField) => (Answered(400, InvalidMessage) /\ calls = <<>>)

\* C8 amended: a request whose body is an object whose requirements (or text)
\* is missing, empty or not a string is answered 400; a request whose body
\* holds no field to read (the JSON value null, and for the match route also
\* an absent or non-JSON body) is answered 500 by the catch block; a non-POST
\* request to a page handler is answered 405; in all three cases, and
\* whenever the status is 400 or 405, no external call was made.
C8_RejectedNoCall ==
  Http =>
    /\ (PageHandler /\ req.method # "POST") =>
         (Answered(405, "Method not allowed") /\ calls = <<>>)
    /\ (req.method = "POST" /\ req.body = "object" /\ BadField) =>
         (Answered(400, InvalidMessage) /\ calls = <<>>)
    /\ (req.method = "POST" /\ req.body # "object") =>
         (Answered(500, GenericError) /\ calls = <<>>)
    /\ (Status(400) \/ Status(405)) => calls = <<>>

\* A match request whose requirements is a number was answered 400.
C8_Witness ==
  running = "match" /\ req.body = "object" /\ req.field = "number" /\ Status(400)

\* Some slice of the text, from a "[" to a "]", is a well-formed array.
ContainsArray(text) ==
  \E a, b \in 1..Len(text) :
    /\ a < b /\ text[a] = "[" /\ text[b] = "]"
    /\ LET inner == SubSeq(text, a + 1, b - 1) IN
         \/ inner = <<>>
         \/ /\ Len(inner) % 2 = 1
            /\ \A x \in 1..Len(inner) :
                 IF x % 2 = 1 THEN inner[x] \notin {"[", "]", ",", "w"} ELSE inner[x] = ","

\* C9: the match route calls embedding, then the vector query, then the
\* completion, each only after the previous call succeeded; the completion is
\* called only when a match joined a local candidate, otherwise the request
\* ends with 404 'No matching candidates found'; a completion text with no
\* parseable JSON array ends it with 500 'Failed to parse AI response'.
C9_OrderAndGuards ==
  running = "match" =>
    /\ calls = SubSeq(<<"embedding", "query", "completion">>, 1, Len(calls))
    /\ \A x \in 2..Len(calls) : Len(callResults) >= x - 1 /\ callResults[x - 1] = "ok"
    /\ Len(calls) = 3 => (allCandidates.ok /\ Len(matchedCandidates) > 0)
    /\ (allCandidates.ok /\ Len(matchedCandidates) = 0) =>
         (Answered(404, "No matching candidates found") /\ Len(calls) = 2)
    /\ (Len(callResults) = 3 /\ callResults[3] = "ok" /\ ~ContainsArray(responseText)) =>
         Answered(500, "Failed to parse AI response")

\* The completion's text was an array cut off before its closing bracket.
C9_Witness ==
  /\ running = "match" /\ Len(callResults) = 3 /\ callResults[3] = "ok"
  /\ Len(responseText) >= 2 /\ responseText[1] = "[" /\ ~ContainsArray(responseText)
  /\ Status(500)

\* C10: the import takes the file as consecutive batches of at most 50
\* records in file order, every record in exactly one batch; per batch
\* upsertToPinecone is called at most once, only after every candidate of the
\* batch was attempted, only with a non-empty list, and the list is the
\* batch's candidates whose embedding succeeded, in file order.
C10_Batching ==
  running = "import" =>
    /\ \A b \in 1..Len(batchLog) :
         /\ batchLog[b][1] = (IF b = 1 THEN 0 ELSE batchLog[b - 1][2])
         /\ batchLog[b][1] < batchLog[b][2]
         /\ batchLog[b][2] - batchLog[b][1] <= batchSize
         /\ batchLog[b][2] <= totalCandidates
    /\ \A c \in 1..cursor :
         Cardinality({b \in 1..Len(batchLog) : batchLog[b][1] < c /\ c <= batchLog[b][2]}) = 1
    /\ pc = "done" => cursor = totalCandidates
    /\ \A u, v \in 1..Len(upsertCalls) : upsertCalls[u].batch = upsertCalls[v].batch => u = v
    /\ \A u \in 1..Len(upsertCalls) :
         LET vs == upsertCalls[u].vectors
             lo == batchLog[upsertCalls[u].batch][1]
             hi == batchLog[upsertCalls[u].batch][2]
         IN /\ \A c \in (lo + 1)..hi : attempts[c] = 1
            /\ Len(vs) > 0
            /\ \A x \in 1..(Len(vs) - 1) : vs[x] < vs[x + 1]
            /\ Range(vs) = {c \in (lo + 1)..hi : outcomeOf[c] = "ok"}

\* Two batches were upserted and a candidate of the first batch had failed.
C10_Witness ==
  /\ Len(upsertCalls) = 2
  /\ \E c \in ErrorRecords : c < batchSize
  /\ Len(upsertCalls[1].vectors) = batchSize - 1


\* The vectors of the chunks sent so far, in the order sent.
RECURSIVE SentVectors(_)
SentVectors(n) == IF n = 0 THEN <<>> ELSE SentVectors(n - 1) \o chunkSends[n].chunk

\* C11: upsertToPinecone sends the vectors in chunks of at most 100 in input
\* order: the chunks are non-empty and together a prefix of the input; when
\* no call failed and the function returned they are the whole input, sent in
\* ceil(n/100) calls (none for an empty list); a failed call is the last call
\* and the error reaches the caller.
C11_ChunksInOrder ==
  running = "upsert" =>
    LET input == upsertCalls[1].vectors
        sent == SentVectors(Len(chunkSends))
    IN /\ \A x \in 1..Len(chunkSends) :
            Len(chunkSends[x].chunk) >= 1 /\ Len(chunkSends[x].chunk) <= upsertBatchSize
       /\ Len(sent) <= Len(input) /\ sent = SubSeq(input, 1, Len(sent))
       /\ \A x \in 1..(Len(chunkSends) - 1) :
            chunkSends[x].ok /\ Len(chunkSends[x].chunk) = upsertBatchSize
       /\ pc = "returned" =>
            /\ sent = input
            /\ \A x \in 1..Len(chunkSends) : chunkSends[x].ok
            /\ Len(chunkSends) * upsertBatchSize >= Len(input)
            /\ Len(chunkSends) * upsertBatchSize < Len(input) + upsertBatchSize
       /\ (chunkSends # <<>> /\ ~chunkSends[Len(chunkSends)].ok) => pc = "threw"
       /\ (pc = "threw" /\ chunkSends # <<>>) => ~chunkSends[Len(chunkSends)].ok

\* A list of more than two chunks was sent whole, its last chunk a short one.
C11_Witness ==
  /\ running = "upsert" /\ pc = "returned" /\ Len(chunkSends) = 3
  /\ Len(chunkSends[3].chunk) < upsertBatchSize

\* The import's positions: the last two are the ends of the function, where its
\* promise has resolved; no position stands for a rejected promise.
ImportPositions ==
  {"createIndex", "candidate", "upsert", "chunk", "batchEnd", "done", "failed"}

\* No record past position c entered the try block or reached the embedding API.
UntouchedAfter(c) ==
  \A r \in Records : r > c => (attempts[r] = 0 /\ embedCalls[r] = 0)

\* C12: the import never rejects and stops at the first fatal error. Once the
\* file, the index creation or the upsert of a batch has thrown, the run is in
\* the outer catch for good and the success message is not logged; after a
\* file or index error no embedding or upsert call was made at all; after an
\* upsert error the failed call is the last index call, it belongs to the last
\* batch started, and no record after that batch was embedded.
C12_StopsAtFirstFatal ==
  running = "import" =>
    /\ pc \in ImportPositions
    /\ pc = "failed" <=> fatal # ""
    /\ pc = "failed" => importedMsg = -1
    /\ pc = "done" => importedMsg = processedCount
    /\ fatal \in {"file", "index"} =>
         /\ UntouchedAfter(0)
         /\ upsertCalls = <<>> /\ chunkSends = <<>> /\ batchLog = <<>>
    /\ fatal = "upsert" =>
         /\ chunkSends # <<>> /\ ~chunkSends[Len(chunkSends)].ok
         /\ chunkSends[Len(chunkSends)].chunk = vectors
         /\ Len(upsertCalls) <= Len(batchLog)
         /\ upsertCalls[Len(upsertCalls)].batch = Len(batchLog)
         /\ cursor = batchLog[Len(batchLog)][2]
         /\ UntouchedAfter(cursor)
    /\ \A x \in 1..(Len(chunkSends) - 1) : chunkSends[x].ok

\* The upsert of the first of two batches failed: the second batch never began.
C12_Witness ==
  /\ running = "import" /\ fatal = "upsert" /\ pc = "failed"
  /\ Len(batchLog) = 1 /\ cursor < totalCandidates
  /\ \E r \in Records : r <= cursor /\ embedCalls[r] = 1

Next ==
  \/ \E file \in CandidateFiles : ImportBegin(file)
  \/ \E outcome \in {"exists", "created", "listFailed", "createFailed"} : CreateIndex(outcome)
  \/ \E outcome \in {"ok", "descError", "embedError"} : ProcessCandidate(outcome)
  \/ UpsertBatch
  \/ \E n \in UpsertLengths, client \in BOOLEAN : UpsertBegin(n, client)
  \/ \E ok \in BOOLEAN : UpsertChunk(ok)
  \/ NextBatch
  \/ \E r \in MatchRequests : MatchBegin(r)
  \/ \E ok \in BOOLEAN : MatchEmbedded(ok)
  \/ \E result \in QueryResults, file \in LocalFiles : MatchQueried(result, file)
  \/ MatchCompleted
  \/ \E r \in PageRequests : QueryBegin(r)
  \/ \E ok \in BOOLEAN : QueryEmbedded(ok)
  \/ \E result \in QueryResults : QueryQueried(result)
  \/ \E r \in PageRequests : EmbedBegin(r)
  \/ \E ok \in BOOLEAN : EmbedEmbedded(ok)

Spec == Init /\ [][Next]_vars

====
